---- MODULE Spec2Model ----
(***************************************************************************)
(* A model of heimdall's rule repository (rules package), of rule.Execute  *)
(* and of the lifecycle of the rule-set watcher.                           *)
(*                                                                         *)
(* Go values are modelled as follows.  A pointer is a sequence of length   *)
(* at most one (<<>> is the nil pointer).  An error is a string, Nil being *)
(* the nil error.  A channel is a sequence (its buffer) plus a closed      *)
(* flag; the unbuffered quit channel is a rendezvous of sender and         *)
(* receiver.  A panic ends the process: every action is disabled once      *)
(* panicked is set.                                                        *)
(***************************************************************************)
EXTENDS Integers, Sequences, FiniteSets, TLC

\* ------------------------------------------------------------------ bounds
\* number of change events the providers send in one behaviour
MaxEvents == 2
\* capacity of the buffered event queue handed to NewRepository
QueueCap == 2
\* number of Start calls in one behaviour
MaxCycles == 2
\* number of goroutines calling FindRule
NumReaders == 2
\* number of goroutines calling rule.Execute
NumRequests == 2

\* ------------------------------------------------------------------ values
Nil == "nil"

ErrNoRuleFound == "no rule found"

Create == "Create"

Remove == "Remove"

ChangeTypes == {Create, Remove}

Sources == {"A", "B"}

Readers == 1..NumReaders

Requests == 1..NumRequests

\* config.RuleConfig values the providers put into rule-set definitions; a URL
\* pattern and a request URL are sequences of path segments
RuleConfigs ==
    { [ID |-> "r1", URL |-> <<"api", "*">>, Methods |-> <<"GET">>],
      [ID |-> "r2", URL |-> <<"api", "users">>, Methods |-> <<>>] }

RequestURLs == { <<"api", "users">>, <<"health">> }

\* the sequences of distinct elements of S (a rule id is unique within a rule set)
RECURSIVE Arrangements(_)
Arrangements(S) ==
    IF S = {} THEN { <<>> }
    ELSE UNION { { <<>> } \cup { <<x>> \o t : t \in Arrangements(S \ {x}) } : x \in S }

\* a json.RawMessage holding a rule-set definition: either it does not parse,
\* or it parses to a sequence of rule configurations (nil/empty input parses
\* to no configuration at all)
Unparsable == [valid |-> FALSE, rcs |-> <<>>]

EmptyDefinition == [valid |-> TRUE, rcs |-> <<>>]

Definitions ==
    {Unparsable} \cup { [valid |-> TRUE, rcs |-> s] : s \in Arrangements(RuleConfigs) }

\* provider.RuleSetChangedEvent
Events ==
    { [Src |-> s, ChangeType |-> Create, Definition |-> d] : s \in Sources, d \in Definitions }
    \cup { [Src |-> s, ChangeType |-> Remove, Definition |-> EmptyDefinition] : s \in Sources }

\* the zero value received from a closed channel; the numeric value of the
\* ChangeType constants is declared outside the modelled files, so the zero
\* ChangeType is any of them
ZeroEvents ==
    { [Src |-> "", ChangeType |-> ct, Definition |-> EmptyDefinition] : ct \in ChangeTypes }

\* ---------------------------------------------------------- handler factory
\* the five Create* calls of newRule, in call order
Stages == <<"authenticator", "authorizer", "hydrator", "mutator", "error_handler">>

\* what the five factory calls for one rule configuration return: "ok" is an
\* instance with a nil error, "err" a construction error
FactoryOutcomes ==
    { [k \in 1..5 |-> "ok"] } \cup { [k \in 1..5 |-> IF k = f THEN "err" ELSE "ok"] : f \in 1..5 }

AllOk == [k \in 1..5 |-> "ok"]

\* the first factory call that returns an error, 0 when none does
FirstErr(out) ==
    IF \E k \in 1..5 : out[k] = "err"
    THEN CHOOSE k \in 1..5 : out[k] = "err" /\ \A j \in 1..(k - 1) : out[j] /= "err"
    ELSE 0

\* the index of the configuration whose construction fails, 0 when none does
FailedAt(outs) ==
    IF \E i \in 1..Len(outs) : FirstErr(outs[i]) /= 0
    THEN CHOOSE i \in 1..Len(outs) :
            FirstErr(outs[i]) /= 0 /\ \A j \in 1..(i - 1) : FirstErr(outs[j]) = 0
    ELSE 0

\* what the factory returns for the n rule configurations of one definition:
\* newRule is not called again after the first failure, so at most one
\* configuration fails
BatchOutcomes(n) ==
    { [i \in 1..n |-> AllOk] }
    \cup { [i \in 1..n |-> IF i = p THEN o ELSE AllOk] : p \in 1..n, o \in FactoryOutcomes \ {AllOk} }

\* headerMutator.WithConfig: no mutator and no error
headerMutator_WithConfig(config) == [stage |-> Nil, err |-> Nil]

\* what a factory call returns that hands on such a result
Outcome(res) == IF res.err /= Nil THEN "err" ELSE IF res.stage = Nil THEN "nil" ELSE "ok"

\* the five results for a rule configuration whose mutator is the header
\* mutator configured by the rule
HeaderMutatorOutcome ==
    [k \in 1..5 |-> IF k = 4 THEN Outcome(headerMutator_WithConfig("headers")) ELSE "ok"]

\* the handler factories NewRepository may be given: one that returns an
\* instance or an error for every stage, and one that hands on what
\* WithConfig of the configured stage returns
ContractFactory == "instance or error"

PrototypeFactory == "WithConfig results"

\* what the given factory returns for the n rule configurations of one
\* definition
BatchOutcomesOf(factory, n) ==
    IF factory = ContractFactory
    THEN BatchOutcomes(n)
    ELSE BatchOutcomes(n)
         \cup { [i \in 1..n |-> IF i = p THEN HeaderMutatorOutcome ELSE AllOk] : p \in 1..n }

StageInstance(out, k) == IF out[k] = "ok" THEN Stages[k] ELSE Nil

\* repository.newRule: the first failing factory call returns its error
newRule(srcID, ruleConfig, out) ==
    IF FirstErr(out) /= 0
    THEN [rule |-> <<>>, err |-> "cannot create " \o Stages[FirstErr(out)]]
    ELSE [rule |-> << [id      |-> ruleConfig.ID,
                       url     |-> ruleConfig.URL,
                       methods |-> ruleConfig.Methods,
                       srcID   |-> srcID,
                       an      |-> StageInstance(out, 1),
                       az      |-> StageInstance(out, 2),
                       h       |-> StageInstance(out, 3),
                       m       |-> StageInstance(out, 4),
                       eh      |-> StageInstance(out, 5)] >>,
          err |-> Nil]

\* parseRuleSetFromYaml
parseRuleSetFromYaml(data) ==
    IF data.valid THEN [rcs |-> data.rcs, err |-> Nil]
    ELSE [rcs |-> <<>>, err |-> "yaml: unmarshal error"]

\* the loop of loadRules from index idx on, acc being rules[1..idx-1]
RECURSIVE loadLoop(_, _, _, _, _)
loadLoop(srcID, rcs, outs, idx, acc) ==
    IF idx > Len(rcs) THEN [rules |-> acc, err |-> Nil]
    ELSE LET r == newRule(srcID, rcs[idx], outs[idx])
         IN  IF r.err /= Nil THEN [rules |-> <<>>, err |-> r.err]
             ELSE loadLoop(srcID, rcs, outs, idx + 1, acc \o r.rule)

\* a loadRules that hands back the rules built before the failure
RECURSIVE loadLoopPartial(_, _, _, _, _)
loadLoopPartial(srcID, rcs, outs, idx, acc) ==
    IF idx > Len(rcs) THEN [rules |-> acc, err |-> Nil]
    ELSE LET r == newRule(srcID, rcs[idx], outs[idx])
         IN  IF r.err /= Nil THEN [rules |-> acc, err |-> r.err]
             ELSE loadLoopPartial(srcID, rcs, outs, idx + 1, acc \o r.rule)

loadRulesPartial(srcID, definition, outs) ==
    LET p == parseRuleSetFromYaml(definition)
    IN  IF p.err /= Nil THEN [rules |-> <<>>, err |-> p.err]
        ELSE loadLoopPartial(srcID, p.rcs, outs, 1, <<>>)

\* repository.loadRules: outs[i] is what the factory returns for the i-th
\* rule configuration
loadRules(srcID, definition, outs) ==
    LET p == parseRuleSetFromYaml(definition)
    IN  IF p.err /= Nil THEN [rules |-> <<>>, err |-> p.err]
        ELSE loadLoop(srcID, p.rcs, outs, 1, <<>>)

\* rule.MatchesURL
MatchesURL(rule, requestURL) == TRUE

\* rule.MatchesMethod: slices.Contains(r.methods, method)
MatchesMethod(rule, method) == \E i \in 1..Len(rule.methods) : rule.methods[i] = method

\* ------------------------------------------------------------------- state
VARIABLES
    rules,      \* repository.rules
    mutex,      \* repository.mutex: [writer: BOOLEAN, readers: Nat]
    queue,      \* buffer of repository.queue
    closed,     \* whether repository.queue has been closed
    panicked,   \* Nil, or the runtime panic that ended the process
    sent,       \* number of events the providers have sent
    lpc,        \* position of the goroutine calling Start and Stop
    cycles,     \* number of Start calls made
    wpc,        \* position of the watcher goroutine
    wpending,   \* onRuleSetCreated: the rules still to be added
    cur,        \* the event the watcher took last, the rules before it, the configuration
                \* whose construction failed (0: none) and loadRules' error
    rpc,        \* FindRule callers: position
    rurl,       \* FindRule callers: requestURL
    ridx,       \* FindRule callers: loop index
    rsnap,      \* FindRule callers: the collection when the read lock was taken
    rres,       \* FindRule callers: the returned (Rule, error)
    epc,        \* Execute callers: position
    esc,        \* Execute callers: subjectCtx (a pointer)
    ecalls,     \* Execute callers: the stage calls made so far, with their results
    eres,       \* Execute callers: the returned (*SubjectContext, error)
    hf,         \* repository.hf: how the handler factory given to NewRepository behaves
    loaded,     \* the rules loadRules has returned so far, in the order the events were taken
    jwt,        \* the jwtAuthenticator obtained last (a pointer), with the configuration it came from
    acall,      \* the last jwtAuthenticator.Authenticate call: what it was given, called and returned
    scall,      \* the last Session.GetSubject call: its receiver, argument and result
    mcall       \* the last rule.MatchesMethod call: its receiver, argument and result

repoVars == <<rules, mutex, queue, closed, panicked, sent, lpc, cycles, wpc, wpending, cur, hf, loaded>>

repoVarsButMutex == <<rules, queue, closed, panicked, sent, lpc, cycles, wpc, wpending, cur, hf, loaded>>

readVars == <<rpc, rurl, ridx, rsnap, rres>>

execVars == <<epc, esc, ecalls, eres>>

callVars == <<jwt, acall, scall, mcall>>

vars == <<rules, mutex, queue, closed, panicked, sent, lpc, cycles, wpc, wpending, cur,
          rpc, rurl, ridx, rsnap, rres, epc, esc, ecalls, eres,
          hf, loaded, jwt, acall, scall, mcall>>

\* no call made yet
NoCall == [fn |-> Nil]

NoEvent == [evt |-> [Src |-> "", ChangeType |-> Nil, Definition |-> EmptyDefinition],
            ok |-> FALSE, before |-> <<>>, failedAt |-> 0, err |-> Nil, queued |-> 0]

NoResult == [rule |-> <<>>, err |-> Nil]

\* the state NewRepository returns, whatever the handler factory given to
\* it: no rules, an open queue, an unbuffered quit channel, no watcher
InitRepository ==
    /\ rules = <<>>
    /\ mutex = [writer |-> FALSE, readers |-> 0]
    /\ queue = <<>>
    /\ closed = FALSE
    /\ panicked = Nil
    /\ sent = 0
    /\ lpc = "idle"
    /\ cycles = 0
    /\ wpc = "idle"
    /\ wpending = <<>>
    /\ cur = NoEvent
    /\ rpc = [r \in Readers |-> "idle"]
    /\ rurl = [r \in Readers |-> <<>>]
    /\ ridx = [r \in Readers |-> 0]
    /\ rsnap = [r \in Readers |-> <<>>]
    /\ rres = [r \in Readers |-> NoResult]
    /\ epc = [q \in Requests |-> "idle"]
    /\ esc = [q \in Requests |-> <<>>]
    /\ ecalls = [q \in Requests |-> <<>>]
    /\ eres = [q \in Requests |-> [sc |-> <<>>, err |-> Nil]]
    /\ loaded = <<>>
    /\ jwt = NoCall
    /\ acall = NoCall
    /\ scall = NoCall
    /\ mcall = NoCall

\* NewRepository with a handler factory that returns, for every stage, an
\* instance or an error
Init ==
    /\ InitRepository
    /\ hf = ContractFactory

\* NewRepository with a handler factory that hands on the results of
\* WithConfig
InitPrototypeFactory ==
    /\ InitRepository
    /\ hf = PrototypeFactory

\* ---------------------------------------------------------------- provider
\* a rule-set provider sends a change event on the queue: a send on a closed
\* channel panics, a send on a full one blocks
ProviderSend(evt) ==
    /\ panicked = Nil
    /\ sent < MaxEvents
    /\ IF closed
       THEN /\ panicked' = "send on closed channel"
            /\ UNCHANGED queue
       ELSE /\ Len(queue) < QueueCap
            /\ queue' = Append(queue, evt)
            /\ UNCHANGED panicked
    /\ sent' = sent + 1
    /\ UNCHANGED <<rules, mutex, closed, lpc, cycles, wpc, wpending, cur, hf, loaded>>
    /\ UNCHANGED readVars
    /\ UNCHANGED execVars
    /\ UNCHANGED callVars

\* --------------------------------------------------------------- lifecycle
\* repository.Start: go r.watchRuleSetChanges()
Start ==
    /\ panicked = Nil
    /\ lpc = "idle"
    /\ wpc \in {"idle", "stopped"}
    /\ cycles < MaxCycles
    /\ cycles' = cycles + 1
    /\ wpc' = "select"
    /\ lpc' = "started"
    /\ UNCHANGED <<rules, mutex, queue, closed, panicked, sent, wpending, cur, hf, loaded>>
    /\ UNCHANGED readVars
    /\ UNCHANGED execVars
    /\ UNCHANGED callVars

\* a Stop that closes the queue before it signals the watcher
Stop_call_closeFirst ==
    /\ panicked = Nil
    /\ lpc \in {"idle", "started"}
    /\ closed' = TRUE
    /\ lpc' = "Stop_send"
    /\ UNCHANGED <<rules, mutex, queue, panicked, sent, cycles, wpc, wpending, cur, hf, loaded>>
    /\ UNCHANGED readVars
    /\ UNCHANGED execVars
    /\ UNCHANGED callVars

\* repository.Stop is called and reaches r.quit <- true, where it blocks until
\* the watcher receives
Stop_call ==
    /\ panicked = Nil
    /\ lpc \in {"idle", "started"}
    /\ lpc' = "Stop_send"
    /\ UNCHANGED <<rules, mutex, queue, closed, panicked, sent, cycles, wpc, wpending, cur, hf, loaded>>
    /\ UNCHANGED readVars
    /\ UNCHANGED execVars
    /\ UNCHANGED callVars

\* a watcher that goes on selecting after the termination signal
Stop_quit_noReturn ==
    /\ panicked = Nil
    /\ lpc = "Stop_send"
    /\ wpc = "select"
    /\ lpc' = "Stop_close"
    /\ UNCHANGED <<rules, mutex, queue, closed, panicked, sent, cycles, wpc, wpending, cur, hf, loaded>>
    /\ UNCHANGED readVars
    /\ UNCHANGED execVars
    /\ UNCHANGED callVars

\* a send of the termination signal that needs no receiver, as on a
\* buffered quit channel
Stop_quit_buffered ==
    /\ panicked = Nil
    /\ lpc = "Stop_send"
    /\ lpc' = "Stop_close"
    /\ UNCHANGED <<rules, mutex, queue, closed, panicked, sent, cycles, wpc, wpending, cur, hf, loaded>>
    /\ UNCHANGED readVars
    /\ UNCHANGED execVars
    /\ UNCHANGED callVars

\* r.quit <- true in Stop meets case <-r.quit in watchRuleSetChanges: the
\* watcher returns, Stop goes on to close the queue
Stop_quit ==
    /\ panicked = Nil
    /\ lpc = "Stop_send"
    /\ wpc = "select"
    /\ wpc' = "stopped"
    /\ lpc' = "Stop_close"
    /\ UNCHANGED <<rules, mutex, queue, closed, panicked, sent, cycles, wpending, cur, hf, loaded>>
    /\ UNCHANGED readVars
    /\ UNCHANGED execVars
    /\ UNCHANGED callVars

\* close(r.queue) and return: closing a closed channel panics
Stop_close ==
    /\ panicked = Nil
    /\ lpc = "Stop_close"
    /\ IF closed
       THEN /\ panicked' = "close of closed channel"
            /\ UNCHANGED <<closed, lpc>>
       ELSE /\ closed' = TRUE
            /\ lpc' = "idle"
            /\ UNCHANGED panicked
    /\ UNCHANGED <<rules, mutex, queue, sent, cycles, wpc, wpending, cur, hf, loaded>>
    /\ UNCHANGED readVars
    /\ UNCHANGED execVars
    /\ UNCHANGED callVars

\* ----------------------------------------------------------------- watcher
\* repository.removeRules: logs, removes nothing
removeRules(rs, srcID) == rs

\* the body of case evt, ok := <-r.queue up to the first addRule:
\* onRuleSetCreated loads the rules and keeps them for the add loop,
\* onRuleSetDeleted calls removeRules; cur keeps, for the record, the event,
\* the collection before it and how many events the queue held when it was
\* taken
Dispatch(evt, ok) ==
    IF evt.ChangeType = Create
    THEN \E outs \in BatchOutcomesOf(hf, Len(evt.Definition.rcs)) :
            LET res == loadRules(evt.Src, evt.Definition, outs)
            IN  /\ cur' = [evt |-> evt, ok |-> ok, before |-> rules,
                            failedAt |-> FailedAt(outs), err |-> res.err,
                            queued |-> Len(queue)]
                /\ wpending' = res.rules
                /\ loaded' = loaded \o res.rules
                /\ wpc' = IF res.rules = <<>> THEN "select" ELSE "addRule_Lock"
                /\ rules' = rules
    ELSE IF evt.ChangeType = Remove
    THEN /\ cur' = [evt |-> evt, ok |-> ok, before |-> rules, failedAt |-> 0, err |-> Nil,
                    queued |-> Len(queue)]
         /\ rules' = removeRules(rules, evt.Src)
         /\ UNCHANGED <<wpending, wpc, loaded>>
    ELSE /\ cur' = [evt |-> evt, ok |-> ok, before |-> rules, failedAt |-> 0, err |-> Nil,
                    queued |-> Len(queue)]
         /\ UNCHANGED <<rules, wpending, wpc, loaded>>

\* a receive that takes the event sent last instead of the one sent first
watchRuleSetChanges_event_last ==
    /\ panicked = Nil
    /\ wpc = "select"
    /\ Len(queue) > 0
    /\ queue' = SubSeq(queue, 1, Len(queue) - 1)
    /\ Dispatch(queue[Len(queue)], TRUE)
    /\ UNCHANGED <<mutex, closed, panicked, sent, lpc, cycles, hf>>
    /\ UNCHANGED readVars
    /\ UNCHANGED execVars
    /\ UNCHANGED callVars

\* watchRuleSetChanges, case evt, ok := <-r.queue, an event being buffered
watchRuleSetChanges_event ==
    /\ panicked = Nil
    /\ wpc = "select"
    /\ Len(queue) > 0
    /\ queue' = Tail(queue)
    /\ Dispatch(Head(queue), TRUE)
    /\ UNCHANGED <<mutex, closed, panicked, sent, lpc, cycles, hf>>
    /\ UNCHANGED readVars
    /\ UNCHANGED execVars
    /\ UNCHANGED callVars

\* watchRuleSetChanges, case evt, ok := <-r.queue on the closed and drained
\* queue: the receive yields the zero event with ok = false, which is
\* dispatched like any other
watchRuleSetChanges_closed ==
    /\ panicked = Nil
    /\ wpc = "select"
    /\ closed
    /\ Len(queue) = 0
    /\ \E z \in ZeroEvents : Dispatch(z, FALSE)
    /\ UNCHANGED <<mutex, queue, closed, panicked, sent, lpc, cycles, hf>>
    /\ UNCHANGED readVars
    /\ UNCHANGED execVars
    /\ UNCHANGED callVars

\* addRule: r.mutex.Lock()
addRule_Lock ==
    /\ panicked = Nil
    /\ wpc = "addRule_Lock"
    /\ ~mutex.writer
    /\ mutex.readers = 0
    /\ mutex' = [mutex EXCEPT !.writer = TRUE]
    /\ wpc' = "addRule_append"
    /\ UNCHANGED <<rules, queue, closed, panicked, sent, lpc, cycles, wpending, cur, hf, loaded>>
    /\ UNCHANGED readVars
    /\ UNCHANGED execVars
    /\ UNCHANGED callVars

\* an addRule that puts the rule in front of the collection
addRule_prepend ==
    /\ panicked = Nil
    /\ wpc = "addRule_append"
    /\ rules' = <<Head(wpending)>> \o rules
    /\ wpc' = "addRule_Unlock"
    /\ UNCHANGED <<mutex, queue, closed, panicked, sent, lpc, cycles, wpending, cur, hf, loaded>>
    /\ UNCHANGED readVars
    /\ UNCHANGED execVars
    /\ UNCHANGED callVars

\* addRule: r.rules = append(r.rules, rule)
addRule_append ==
    /\ panicked = Nil
    /\ wpc = "addRule_append"
    /\ rules' = Append(rules, Head(wpending))
    /\ wpc' = "addRule_Unlock"
    /\ UNCHANGED <<mutex, queue, closed, panicked, sent, lpc, cycles, wpending, cur, hf, loaded>>
    /\ UNCHANGED readVars
    /\ UNCHANGED execVars
    /\ UNCHANGED callVars

\* addRule: r.mutex.Unlock(); the loop of onRuleSetCreated goes to the next
\* rule, or the watcher back to its select
addRule_Unlock ==
    /\ panicked = Nil
    /\ wpc = "addRule_Unlock"
    /\ mutex' = [mutex EXCEPT !.writer = FALSE]
    /\ wpending' = Tail(wpending)
    /\ wpc' = IF Tail(wpending) = <<>> THEN "select" ELSE "addRule_Lock"
    /\ UNCHANGED <<rules, queue, closed, panicked, sent, lpc, cycles, cur, hf, loaded>>
    /\ UNCHANGED readVars
    /\ UNCHANGED execVars
    /\ UNCHANGED callVars

\* ---------------------------------------------------------------- FindRule
\* FindRule: r.mutex.RLock().  It waits while a writer holds the lock; that
\* sync.RWMutex also holds new readers back while a writer waits is left out,
\* which only adds interleavings
FindRule_RLock(r, requestURL) ==
    /\ panicked = Nil
    /\ rpc[r] = "idle"
    /\ ~mutex.writer
    /\ mutex' = [mutex EXCEPT !.readers = @ + 1]
    /\ rpc' = [rpc EXCEPT ![r] = "loop"]
    /\ rurl' = [rurl EXCEPT ![r] = requestURL]
    /\ ridx' = [ridx EXCEPT ![r] = 1]
    /\ rsnap' = [rsnap EXCEPT ![r] = rules]
    /\ rres' = [rres EXCEPT ![r] = NoResult]
    /\ UNCHANGED repoVarsButMutex
    /\ UNCHANGED execVars
    /\ UNCHANGED callVars

\* FindRule: one iteration of for _, rule := range r.rules, or the return
\* after the loop
FindRule_loop(r) ==
    /\ panicked = Nil
    /\ rpc[r] = "loop"
    /\ IF ridx[r] > Len(rules)
       THEN /\ rres' = [rres EXCEPT ![r] = [rule |-> <<>>, err |-> ErrNoRuleFound]]
            /\ rpc' = [rpc EXCEPT ![r] = "RUnlock"]
            /\ UNCHANGED ridx
       ELSE IF MatchesURL(rules[ridx[r]], rurl[r])
       THEN /\ rres' = [rres EXCEPT ![r] = [rule |-> <<rules[ridx[r]]>>, err |-> Nil]]
            /\ rpc' = [rpc EXCEPT ![r] = "RUnlock"]
            /\ UNCHANGED ridx
       ELSE /\ ridx' = [ridx EXCEPT ![r] = @ + 1]
            /\ UNCHANGED <<rres, rpc>>
    /\ UNCHANGED <<rurl, rsnap>>
    /\ UNCHANGED repoVars
    /\ UNCHANGED execVars
    /\ UNCHANGED callVars

\* FindRule: the deferred r.mutex.RUnlock(); the call has returned
FindRule_RUnlock(r) ==
    /\ panicked = Nil
    /\ rpc[r] = "RUnlock"
    /\ mutex' = [mutex EXCEPT !.readers = @ - 1]
    /\ rpc' = [rpc EXCEPT ![r] = "idle"]
    /\ rurl' = [rurl EXCEPT ![r] = <<>>]
    /\ ridx' = [ridx EXCEPT ![r] = 0]
    /\ rsnap' = [rsnap EXCEPT ![r] = <<>>]
    /\ rres' = [rres EXCEPT ![r] = NoResult]
    /\ UNCHANGED repoVarsButMutex
    /\ UNCHANGED execVars
    /\ UNCHANGED callVars

\* ------------------------------------------------------------ rule.Execute
\* the four pipeline stages in the order Execute calls them
Pipeline == <<"Authenticate", "Authorize", "Hydrate", "Mutate">>

\* the errors a stage implementation may return
StageErrors == {"e1", "e2"}

\* what the rule's ErrorHandler may return: nil (the error is suppressed),
\* the error it was given, or a translated one
HandlerResults(err) == {Nil, err, "translated"}

\* Execute: subjectCtx := &heimdall.SubjectContext{}
Execute_begin(q) ==
    /\ epc[q] \in {"idle", "done"}
    /\ esc' = [esc EXCEPT ![q] = << [owner |-> q, by |-> <<>>] >>]
    /\ ecalls' = [ecalls EXCEPT ![q] = <<>>]
    /\ eres' = [eres EXCEPT ![q] = [sc |-> <<>>, err |-> Nil]]
    /\ epc' = [epc EXCEPT ![q] = Pipeline[1]]
    /\ UNCHANGED repoVars
    /\ UNCHANGED readVars
    /\ UNCHANGED callVars

\* a failure return that hands out the subject context as well
returnHandledWithSubject(sc, hret) == [sc |-> sc, err |-> hret]

\* return nil, r.eh.HandleError(ctx, err)
returnHandled(sc, hret) == [sc |-> <<>>, err |-> hret]

\* return subjectCtx, nil
returnSubject(sc) == [sc |-> sc, err |-> Nil]

\* a stage block that logs the failure, hands it to the error handler and
\* then falls through to the next stage
StageFallThrough(q, k) ==
    /\ epc[q] = Pipeline[k]
    /\ \E ret \in {Nil} \cup StageErrors :
          LET call == [op |-> Pipeline[k], arg |-> Nil, ret |-> ret]
              sc == << [esc[q][1] EXCEPT !.by = Append(@, Pipeline[k])] >>
          IN  IF ret /= Nil
              THEN \E hret \in HandlerResults(ret) :
                      /\ ecalls' = [ecalls EXCEPT ![q] =
                                      @ \o <<call, [op |-> "HandleError", arg |-> ret, ret |-> hret]>>]
                      /\ IF k = Len(Pipeline)
                         THEN /\ eres' = [eres EXCEPT ![q] = returnHandled(esc[q], hret)]
                              /\ epc' = [epc EXCEPT ![q] = "done"]
                         ELSE /\ epc' = [epc EXCEPT ![q] = Pipeline[k + 1]]
                              /\ UNCHANGED eres
                      /\ UNCHANGED esc
              ELSE /\ ecalls' = [ecalls EXCEPT ![q] = Append(@, call)]
                   /\ esc' = [esc EXCEPT ![q] = sc]
                   /\ IF k = Len(Pipeline)
                      THEN /\ eres' = [eres EXCEPT ![q] = returnSubject(sc)]
                           /\ epc' = [epc EXCEPT ![q] = "done"]
                      ELSE /\ epc' = [epc EXCEPT ![q] = Pipeline[k + 1]]
                           /\ UNCHANGED eres
    /\ UNCHANGED repoVars
    /\ UNCHANGED readVars
    /\ UNCHANGED callVars

\* Execute: the k-th stage block.  The stage is called with subjectCtx and
\* returns nil or an error; on an error the rule's ErrorHandler is called
\* with it and Execute returns; after the last stage Execute returns
\* subjectCtx
Stage(q, k) ==
    /\ epc[q] = Pipeline[k]
    /\ \E ret \in {Nil} \cup StageErrors :
          LET call == [op |-> Pipeline[k], arg |-> Nil, ret |-> ret]
              sc == << [esc[q][1] EXCEPT !.by = Append(@, Pipeline[k])] >>
          IN  IF ret /= Nil
              THEN \E hret \in HandlerResults(ret) :
                      /\ ecalls' = [ecalls EXCEPT ![q] =
                                      @ \o <<call, [op |-> "HandleError", arg |-> ret, ret |-> hret]>>]
                      /\ eres' = [eres EXCEPT ![q] = returnHandled(esc[q], hret)]
                      /\ epc' = [epc EXCEPT ![q] = "done"]
                      /\ UNCHANGED esc
              ELSE /\ ecalls' = [ecalls EXCEPT ![q] = Append(@, call)]
                   /\ esc' = [esc EXCEPT ![q] = sc]
                   /\ IF k = Len(Pipeline)
                      THEN /\ eres' = [eres EXCEPT ![q] = returnSubject(sc)]
                           /\ epc' = [epc EXCEPT ![q] = "done"]
                      ELSE /\ epc' = [epc EXCEPT ![q] = Pipeline[k + 1]]
                           /\ UNCHANGED eres
    /\ UNCHANGED repoVars
    /\ UNCHANGED readVars
    /\ UNCHANGED callVars

Execute_Authenticate(q) == Stage(q, 1)

Execute_Authorize(q) == Stage(q, 2)

Execute_Hydrate(q) == Stage(q, 3)

Execute_Mutate(q) == Stage(q, 4)

\* ------------------------------------------------------- Session.GetSubject
\* errors of the handlers: a kind (the Go type) and a message; NoError is nil
NoError == [kind |-> Nil, msg |-> Nil]

Err(kind, msg) == [kind |-> kind, msg |-> msg]

\* a JSON string literal
Quote(s) == "\"" \o s \o "\""

\* the strings the JSON documents carry
StringContents == {"alice", ""}

\* JSON texts of a string, a null, a number and an object
StringTexts == {Quote(s) : s \in StringContents}

ObjectTexts == {"{\"role\":\"admin\"}"}

JSONTexts == StringTexts \cup ObjectTexts \cup {"null", "42"}

\* the GJSON paths of the documents; a document gives every path the raw JSON
\* text found there, "" where the path does not exist
Paths == {"sub", "uid", "attrs"}

Payloads == [Paths -> JSONTexts \cup {""}]

\* gjson.GetBytes(rawData, path).Raw: the raw text at the path, "" if absent
gjsonRaw(rawData, path) == IF path \in DOMAIN rawData THEN rawData[path] ELSE ""

\* stringsx.Coalesce: the first non-empty string
Coalesce(a, b) == IF a /= "" THEN a ELSE b

\* json.Unmarshal into a string variable holding "": null leaves the variable
\* as it is, a string literal sets it, anything else is an error
UnmarshalString(text) ==
    IF text = "null"
    THEN [v |-> "", err |-> Nil]
    ELSE IF \E s \in StringContents : text = Quote(s)
         THEN [v |-> CHOOSE s \in StringContents : text = Quote(s), err |-> Nil]
         ELSE [v |-> "", err |-> "json: cannot unmarshal into Go value of type string"]

\* json.Unmarshal into a nil map: null leaves it nil, an object fills it,
\* anything else is an error
UnmarshalMap(text) ==
    IF text = "null"
    THEN [v |-> Nil, err |-> Nil]
    ELSE IF text \in ObjectTexts
         THEN [v |-> text, err |-> Nil]
         ELSE [v |-> Nil, err |-> "json: cannot unmarshal into Go value of type map"]

Sessions == [SubjectFrom : {"sub", "uid"}, AttributesFrom : {"", "attrs"}]

\* Session.GetSubject: the subject of a claims document, or an error
GetSubject(s, rawData) ==
    LET id == UnmarshalString(Coalesce(gjsonRaw(rawData, s.SubjectFrom), "null"))
        attrs == UnmarshalMap(Coalesce(gjsonRaw(rawData, s.AttributesFrom), "null"))
    IN  IF id.err /= Nil
        THEN [subject |-> <<>>,
              err |-> Err("error", "configured subject_from GJSON path returned an error on JSON output")]
        ELSE IF attrs.err /= Nil
             THEN [subject |-> <<>>,
                   err |-> Err("error", "configured attributes_from GJSON path returned an error on JSON output")]
             ELSE [subject |-> <<[Id |-> id.v, Attributes |-> attrs.v]>>, err |-> NoError]

\* a caller extracts the subject of a document
GetSubject_call(s, rawData) ==
    /\ scall = NoCall
    /\ jwt = NoCall
    /\ scall' = [fn |-> "GetSubject", s |-> s, rawData |-> rawData, ret |-> GetSubject(s, rawData)]
    /\ UNCHANGED <<jwt, acall, mcall>>
    /\ UNCHANGED repoVars
    /\ UNCHANGED readVars
    /\ UNCHANGED execVars

\* --------------------------------------------------------- jwtAuthenticator
\* the allowed algorithms NewJwtAuthenticatorFromYAML falls back to
DefaultAlgorithms == <<"ES256", "ES384", "ES512", "PS256", "PS384", "PS512">>

\* the allowed-algorithm lists a configuration may give: none, or one of its own
AlgLists == {<<>>, <<"HS256">>}

\* oauth2.Expectation as a configuration gives it
Expectations == [TrustedIssuers : {<<>>, <<"idp">>}, AllowedAlgorithms : AlgLists]

\* a header map is a set of <<name, value>> pairs; the nil map is the empty set
HasHeader(headers, name) == \E p \in headers : p[1] = name

\* the raw configurations given to NewJwtAuthenticatorFromYAML: whether the
\* strict YAML decoding accepts them, and the fields decoded
Configs ==
    [strict : BOOLEAN,
     URL : {"", "https://idp/jwks"},
     Method : {"", "POST"},
     Headers : {{}, {<<"Accept-Type", "text/plain">>}},
     JwtAssertions : Expectations,
     SubjectFrom : {"", "uid"},
     es : {Nil, "query"}]

\* Expectation.Validate: trusted issuers are required
ExpectationValidate(a) == IF a.TrustedIssuers = <<>> THEN "missing trusted_issuers" ELSE Nil

\* Endpoint.Validate: the url is required
EndpointValidate(e) == IF e.URL = "" THEN "endpoint requires url to be set" ELSE Nil

\* Expectation.IsAlgorithmAllowed: membership in the allowed-algorithm list
IsAlgorithmAllowed(a, alg) == \E i \in 1..Len(a.AllowedAlgorithms) : a.AllowedAlgorithms[i] = alg

\* NewJwtAuthenticatorFromYAML: the authenticator of a configuration, with
\* its defaults filled in, or an error
NewJwtAuthenticatorFromYAML(rawConfig) ==
    IF ~rawConfig.strict
    THEN [auth |-> <<>>, err |-> Err("error", "yaml: unmarshal errors")]
    ELSE IF ExpectationValidate(rawConfig.JwtAssertions) /= Nil
    THEN [auth |-> <<>>, err |-> Err("ArgumentError", "failed to validate assertions configuration")]
    ELSE
    LET headers == IF HasHeader(rawConfig.Headers, "Accept-Type")
                   THEN rawConfig.Headers
                   ELSE rawConfig.Headers \cup {<<"Accept-Type", "application/json">>}
        method == IF Len(rawConfig.Method) = 0 THEN "GET" ELSE rawConfig.Method
        algs == IF Len(rawConfig.JwtAssertions.AllowedAlgorithms) = 0
                THEN DefaultAlgorithms
                ELSE rawConfig.JwtAssertions.AllowedAlgorithms
        e == [URL |-> rawConfig.URL, Method |-> method, Headers |-> headers]
        subjectFrom == IF Len(rawConfig.SubjectFrom) = 0 THEN "sub" ELSE rawConfig.SubjectFrom
        adg == IF rawConfig.es = Nil THEN "composite" ELSE rawConfig.es
    IN  IF EndpointValidate(e) /= Nil
        THEN [auth |-> <<>>, err |-> Err("ArgumentError", "failed to validate endpoint configuration")]
        ELSE [auth |-> <<[e |-> e,
                          a |-> [rawConfig.JwtAssertions EXCEPT !.AllowedAlgorithms = algs],
                          se |-> [SubjectFrom |-> subjectFrom, AttributesFrom |-> ""],
                          adg |-> adg]>>,
              err |-> NoError]

\* the rule-level configurations given to WithConfig: no bytes at all, or a
\* YAML document that decodes or not
Overrides == {<<>>} \cup {<<c>> : c \in [parses : BOOLEAN, JwtAssertions : Expectations]}

\* jwtAuthenticator.WithConfig: the authenticator itself for an empty
\* configuration, else one with the assertions of the configuration
WithConfig(a, config) ==
    IF Len(config) = 0
    THEN [auth |-> <<a>>, err |-> NoError]
    ELSE IF ~config[1].parses
         THEN [auth |-> <<>>, err |-> Err("error", "yaml: cannot unmarshal")]
         ELSE [auth |-> <<[a EXCEPT !.a = config[1].JwtAssertions]>>, err |-> NoError]

\* the signing keys of the key sets, and the key sets an endpoint may return
Key(kid, alg) == [KeyID |-> kid, Algorithm |-> alg]

KeySets ==
    {<<>>,
     <<Key("k1", "ES256")>>,
     <<Key("k1", "HS256")>>,
     <<Key("k1", "ES256"), Key("k1", "PS256")>>}

\* what the key-set endpoint answers: a transport error, a body that is not
\* a JSON key set, or a key set
EndpointResponses ==
    {[err |-> "connection refused", valid |-> FALSE, keys |-> <<>>],
     [err |-> Nil, valid |-> FALSE, keys |-> <<>>]}
    \cup {[err |-> Nil, valid |-> TRUE, keys |-> ks] : ks \in KeySets}

\* the claims documents of the tokens
TokenPayloads ==
    {[p \in Paths |-> IF p = "sub" THEN Quote("alice") ELSE ""],
     [p \in Paths |-> IF p = "uid" THEN "42" ELSE ""]}

NoPayload == [p \in Paths |-> ""]

\* raw tokens: the number of dots in the string, whether it parses as a signed
\* JWT, the key id of its header, whether its signature verifies with the
\* key set, whether its claims satisfy the assertions, and its claims
Tokens ==
    {t \in [dots : 1..3, wellFormed : BOOLEAN, KeyID : {"", "k1", "k2"},
            verifies : BOOLEAN, satisfies : BOOLEAN,
            payload : TokenPayloads \cup {NoPayload}] :
        IF t.wellFormed
        THEN t.dots = 2 /\ t.KeyID /= "" /\ t.payload /= NoPayload
        ELSE t.KeyID = "" /\ ~t.verifies /\ ~t.satisfies /\ t.payload = NoPayload}

\* the requests to authenticate: the Authorization header, the access_token
\* form parameter and the access_token query parameter, each absent or
\* carrying a token, at most one of them present
AuthRequests ==
    {as \in [header : {<<>>} \cup {<<t>> : t \in Tokens},
             form : {<<>>} \cup {<<t>> : t \in Tokens},
             query : {<<>>} \cup {<<t>> : t \in Tokens}] :
        Len(as.header) + Len(as.form) + Len(as.query) <= 1}

\* QueryParameterExtractStrategy.GetAuthData: the value of the query parameter
QueryParameterExtractStrategy_GetAuthData(as) ==
    IF Len(as.query) /= 0
    THEN [val |-> as.query, err |-> NoError]
    ELSE [val |-> <<>>, err |-> Err("ErrAuthData", "no query parameter present")]

\* the header and the form strategy, alike
HeaderValueExtractStrategy_GetAuthData(as) ==
    IF Len(as.header) /= 0
    THEN [val |-> as.header, err |-> NoError]
    ELSE [val |-> <<>>, err |-> Err("ErrAuthData", "no header present")]

FormParameterExtractStrategy_GetAuthData(as) ==
    IF Len(as.form) /= 0
    THEN [val |-> as.form, err |-> NoError]
    ELSE [val |-> <<>>, err |-> Err("ErrAuthData", "no form parameter present")]

\* the composite strategy: the first of its strategies that finds a value
CompositeExtractStrategy_GetAuthData(as) ==
    IF HeaderValueExtractStrategy_GetAuthData(as).err = NoError
    THEN HeaderValueExtractStrategy_GetAuthData(as)
    ELSE IF FormParameterExtractStrategy_GetAuthData(as).err = NoError
         THEN FormParameterExtractStrategy_GetAuthData(as)
         ELSE QueryParameterExtractStrategy_GetAuthData(as)

\* a.adg.GetAuthData: the strategy configured
GetAuthData(adg, as) ==
    IF adg = "composite"
    THEN CompositeExtractStrategy_GetAuthData(as)
    ELSE QueryParameterExtractStrategy_GetAuthData(as)

\* JSONWebKeySet.Key: the keys of the key set with the given key id
KeysOf(jwks, kid) == SelectSeq(jwks, LAMBDA k : k.KeyID = kid)

\* the verification with the allow-list left out
verifyTokenIgnoringAllowList(a, jwtRaw, jwks) ==
    IF jwtRaw.dots /= 2
    THEN [payload |-> <<>>, err |-> Err("error", "unsupported jwt format")]
    ELSE IF ~jwtRaw.wellFormed
    THEN [payload |-> <<>>, err |-> Err("error", "jwt.ParseSigned failed")]
    ELSE IF Len(KeysOf(jwks, jwtRaw.KeyID)) /= 1
    THEN [payload |-> <<>>, err |-> Err("error", "no (unique) key found for the given key id")]
    ELSE IF ~jwtRaw.verifies
    THEN [payload |-> <<>>, err |-> Err("error", "token.Claims failed")]
    ELSE IF ~jwtRaw.satisfies
    THEN [payload |-> <<>>,
          err |-> Err("UnauthorizedError", "access token does not satisfy assertion conditions")]
    ELSE [payload |-> <<jwtRaw.payload>>, err |-> NoError]

\* jwtAuthenticator.verifyTokenAndGetClaims: the claims of a token the key
\* set vouches for, or an error; a compact token has one header, so the loop
\* over the headers looks up the keys of that one key id
verifyTokenAndGetClaims(a, jwtRaw, jwks) ==
    IF jwtRaw.dots /= 2
    THEN [payload |-> <<>>, err |-> Err("error", "unsupported jwt format")]
    ELSE IF ~jwtRaw.wellFormed
    THEN [payload |-> <<>>, err |-> Err("error", "jwt.ParseSigned failed")]
    ELSE IF Len(KeysOf(jwks, jwtRaw.KeyID)) /= 1
    THEN [payload |-> <<>>, err |-> Err("error", "no (unique) key found for the given key id")]
    ELSE IF ~IsAlgorithmAllowed(a.a, KeysOf(jwks, jwtRaw.KeyID)[1].Algorithm)
    THEN [payload |-> <<>>,
          err |-> Err("error", KeysOf(jwks, jwtRaw.KeyID)[1].Algorithm \o " algorithm is not allowed")]
    ELSE IF ~jwtRaw.verifies
    THEN [payload |-> <<>>, err |-> Err("error", "token.Claims failed")]
    ELSE IF ~jwtRaw.satisfies
    THEN [payload |-> <<>>,
          err |-> Err("UnauthorizedError", "access token does not satisfy assertion conditions")]
    ELSE [payload |-> <<jwtRaw.payload>>, err |-> NoError]

\* jwtAuthenticator.Authenticate: the calls it makes, in order, the error it
\* returns, the subject it leaves in the subject context, and what
\* verifyTokenAndGetClaims was given and returned if it was called
Authenticate(a, as, resp) ==
    LET none == [payload |-> <<>>, err |-> NoError]
        ad == GetAuthData(a.adg, as)
        v == verifyTokenAndGetClaims(a, ad.val[1], resp.keys)
        sub == GetSubject(a.se, v.payload[1])
    IN  IF resp.err /= Nil
        THEN [calls |-> <<"SendRequest">>, err |-> Err("error", resp.err),
              subject |-> <<>>, verified |-> none]
        ELSE IF ~resp.valid
        THEN [calls |-> <<"SendRequest">>, err |-> Err("error", "json: cannot unmarshal"),
              subject |-> <<>>, verified |-> none]
        ELSE IF ad.err /= NoError
        THEN [calls |-> <<"SendRequest", "GetAuthData">>,
              err |-> Err("ArgumentError", "no jwt present"),
              subject |-> <<>>, verified |-> none]
        ELSE IF v.err /= NoError
        THEN [calls |-> <<"SendRequest", "GetAuthData", "verifyTokenAndGetClaims">>,
              err |-> v.err, subject |-> <<>>, verified |-> v]
        ELSE [calls |-> <<"SendRequest", "GetAuthData", "verifyTokenAndGetClaims", "GetSubject">>,
              err |-> sub.err, subject |-> sub.subject, verified |-> v]

\* a caller builds the authenticator of a configuration
NewJwtAuthenticatorFromYAML_call(rawConfig) ==
    /\ jwt = NoCall
    /\ scall = NoCall
    /\ jwt' = [fn |-> "NewJwtAuthenticatorFromYAML",
               algs |-> rawConfig.JwtAssertions.AllowedAlgorithms,
               ret |-> NewJwtAuthenticatorFromYAML(rawConfig)]
    /\ UNCHANGED <<acall, scall, mcall>>
    /\ UNCHANGED repoVars
    /\ UNCHANGED readVars
    /\ UNCHANGED execVars

\* a rule asks the configured authenticator for one with its own assertions
WithConfig_call(config) ==
    /\ jwt /= NoCall
    /\ jwt.fn = "NewJwtAuthenticatorFromYAML"
    /\ jwt.ret.auth /= <<>>
    /\ acall = NoCall
    /\ jwt' = [fn |-> "WithConfig",
               algs |-> IF Len(config) = 0 THEN jwt.algs ELSE config[1].JwtAssertions.AllowedAlgorithms,
               ret |-> WithConfig(jwt.ret.auth[1], config)]
    /\ UNCHANGED <<acall, scall, mcall>>
    /\ UNCHANGED repoVars
    /\ UNCHANGED readVars
    /\ UNCHANGED execVars

\* a request is authenticated with the authenticator obtained last
Authenticate_call(as, resp) ==
    /\ jwt /= NoCall
    /\ jwt.ret.auth /= <<>>
    /\ acall = NoCall
    /\ acall' = [fn |-> "Authenticate", as |-> as, resp |-> resp,
                 ret |-> Authenticate(jwt.ret.auth[1], as, resp)]
    /\ UNCHANGED <<jwt, scall, mcall>>
    /\ UNCHANGED repoVars
    /\ UNCHANGED readVars
    /\ UNCHANGED execVars

\* ------------------------------------------------------- rule.MatchesMethod
\* the methods a rule may list and a request may carry
Methods == {"GET", "POST", "PUT"}

RequestMethods == Methods \cup {"DELETE"}

\* the rules newRule builds from configurations listing any of the methods
MethodRules ==
    { newRule("A", [rc EXCEPT !.Methods = ml], AllOk).rule[1] :
        rc \in RuleConfigs, ml \in Arrangements(Methods) }

\* a caller asks a rule whether it matches a method
MatchesMethod_call(rule, method) ==
    /\ mcall = NoCall
    /\ mcall' = [fn |-> "MatchesMethod", rule |-> rule, method |-> method,
                 ret |-> MatchesMethod(rule, method)]
    /\ UNCHANGED <<jwt, acall, scall>>
    /\ UNCHANGED repoVars
    /\ UNCHANGED readVars
    /\ UNCHANGED execVars

\* ---------------------------------------------------------- specifications
\* the repository with its providers, its lifecycle and its FindRule callers
Next ==
    \/ \E evt \in Events : ProviderSend(evt)
    \/ Start
    \/ Stop_call
    \/ Stop_quit
    \/ Stop_close
    \/ watchRuleSetChanges_event
    \/ watchRuleSetChanges_closed
    \/ addRule_Lock
    \/ addRule_append
    \/ addRule_Unlock
    \/ \E r \in Readers, u \in RequestURLs : FindRule_RLock(r, u)
    \/ \E r \in Readers : FindRule_loop(r)
    \/ \E r \in Readers : FindRule_RUnlock(r)

Spec == Init /\ [][Next]_vars

\* a started repository loading the rule sets its providers send
NextLoad ==
    \/ \E evt \in Events : ProviderSend(evt)
    \/ Start
    \/ watchRuleSetChanges_event
    \/ addRule_Lock
    \/ addRule_append
    \/ addRule_Unlock

SpecLoad == Init /\ [][NextLoad]_vars

\* FindRule callers running beside the watcher
NextFind ==
    \/ \E evt \in Events : ProviderSend(evt)
    \/ Start
    \/ watchRuleSetChanges_event
    \/ addRule_Lock
    \/ addRule_append
    \/ addRule_Unlock
    \/ \E r \in Readers, u \in RequestURLs : FindRule_RLock(r, u)
    \/ \E r \in Readers : FindRule_loop(r)
    \/ \E r \in Readers : FindRule_RUnlock(r)

SpecFind == Init /\ [][NextFind]_vars

\* the same with a factory that hands on WithConfig results
SpecFindPrototypeFactory == InitPrototypeFactory /\ [][NextFind]_vars

\* Start and Stop cycles beside the providers and the watcher
NextLifecycle ==
    \/ \E evt \in Events : ProviderSend(evt)
    \/ Start
    \/ Stop_call
    \/ Stop_quit
    \/ Stop_close
    \/ watchRuleSetChanges_event
    \/ watchRuleSetChanges_closed
    \/ addRule_Lock
    \/ addRule_append
    \/ addRule_Unlock

SpecLifecycle == Init /\ [][NextLifecycle]_vars

\* concurrent calls of rule.Execute
NextExecute ==
    \/ \E q \in Requests : Execute_begin(q)
    \/ \E q \in Requests : Execute_Authenticate(q)
    \/ \E q \in Requests : Execute_Authorize(q)
    \/ \E q \in Requests : Execute_Hydrate(q)
    \/ \E q \in Requests : Execute_Mutate(q)

SpecExecute == Init /\ [][NextExecute]_vars

\* the token authenticator: built from a configuration, reconfigured by a
\* rule, and authenticating a request; and the subject extraction on its own
NextAuthn ==
    \/ \E rawConfig \in Configs : NewJwtAuthenticatorFromYAML_call(rawConfig)
    \/ \E config \in Overrides : WithConfig_call(config)
    \/ \E as \in AuthRequests, resp \in EndpointResponses : Authenticate_call(as, resp)
    \/ \E s \in Sessions, rawData \in Payloads : GetSubject_call(s, rawData)

SpecAuthn == Init /\ [][NextAuthn]_vars

\* the method matching of the rules
NextMatch ==
    \E rule \in MethodRules, method \in RequestMethods : MatchesMethod_call(rule, method)

SpecMatch == Init /\ [][NextMatch]_vars

\* the loading of rule sets with a factory that hands on WithConfig results
SpecPrototypeFactory == InitPrototypeFactory /\ [][NextLoad]_vars

\* ------------------------------------------------------------------ claims
\* the watcher has finished with the event recorded in cur
EventDone == wpc \in {"select", "stopped"} /\ wpending = <<>>

\* the rules of rs whose source is srcID, in order
RulesOfSource(rs, srcID) == SelectSeq(rs, LAMBDA x : x.srcID = srcID)

\* the rules of rs whose source is not srcID, in order
RulesOfOthers(rs, srcID) == SelectSeq(rs, LAMBDA x : x.srcID /= srcID)

\* C1. Atomic batch load: when the definition of a Create event does not
\* parse, or the construction of any one of its rule configurations fails,
\* the rule collection stays what it was before the event and no rule of the
\* batch is kept for adding.
C1_AtomicBatchLoad ==
    (cur.evt.ChangeType = Create /\ cur.err /= Nil)
        => (rules = cur.before /\ wpending = <<>> /\ wpc \notin {"addRule_Lock", "addRule_append", "addRule_Unlock"})

\* C1 witness: a definition of two configurations whose second one failed
\* construction has been processed by a repository that already held rules
C1_Witness ==
    /\ cur.evt.ChangeType = Create
    /\ Len(cur.evt.Definition.rcs) = 2
    /\ cur.failedAt = 2
    /\ cur.err /= Nil
    /\ rules /= <<>>
    /\ wpc = "select"

\* C2. Removal by source: once a Remove event for source S is processed, the
\* collection is the previous one without the rules of S, the others kept in
\* order.
C2_RemovalBySource ==
    (cur.ok /\ cur.evt.ChangeType = Remove /\ EventDone)
        => rules = RulesOfOthers(cur.before, cur.evt.Src)

\* C3. Replace-not-merge: once a successful Create event for source S is
\* processed, the rules of S in the collection are exactly those of the new
\* definition.
C3_ReplaceOnCreate ==
    (cur.ok /\ cur.evt.ChangeType = Create /\ cur.err = Nil /\ EventDone)
        => RulesOfSource(rules, cur.evt.Src)
             = loadRules(cur.evt.Src, cur.evt.Definition,
                         [i \in 1..Len(cur.evt.Definition.rcs) |-> AllOk]).rules

\* the URL matching the specification asks for: literal segments match
\* themselves, "*" matches one segment, "**" the rest of the path
RECURSIVE PatternMatches(_, _)
PatternMatches(pattern, url) ==
    IF pattern = <<>> THEN url = <<>>
    ELSE IF Head(pattern) = "**" THEN TRUE
    ELSE IF url = <<>> THEN FALSE
    ELSE /\ (Head(pattern) = "*" \/ Head(pattern) = Head(url))
         /\ PatternMatches(Tail(pattern), Tail(url))

\* the lookup result the specification asks for: the first rule in insertion
\* order whose pattern matches, the not-found error when none does
FirstMatch(rs, url) ==
    IF \E i \in 1..Len(rs) : PatternMatches(rs[i].url, url)
    THEN LET i == CHOOSE i \in 1..Len(rs) :
                     /\ PatternMatches(rs[i].url, url)
                     /\ \A j \in 1..(i - 1) : ~PatternMatches(rs[j].url, url)
         IN  [rule |-> <<rs[i]>>, err |-> Nil]
    ELSE [rule |-> <<>>, err |-> ErrNoRuleFound]

\* C4. First-match-wins lookup: FindRule returns the first rule in insertion
\* order whose URL pattern matches the request URL, and the not-found error
\* exactly when no pattern matches.
C4_FirstMatchWins ==
    \A r \in Readers : rpc[r] = "RUnlock" => rres[r] = FirstMatch(rules, rurl[r])

\* the stage calls of a request that returned an error
FailedCalls(q) ==
    { i \in 1..Len(ecalls[q]) : ecalls[q][i].op /= "HandleError" /\ ecalls[q][i].ret /= Nil }

HandlerCalls(q) == { i \in 1..Len(ecalls[q]) : ecalls[q][i].op = "HandleError" }

\* C5. Pipeline short-circuit: the first failing stage is the last stage
\* called, and the ErrorHandler is called exactly once, right after it, with
\* the error that stage returned; without a failing stage the ErrorHandler is
\* not called.
C5_ShortCircuit ==
    \A q \in Requests :
        /\ \A i \in FailedCalls(q) :
              /\ Len(ecalls[q]) = i + 1
              /\ ecalls[q][i + 1].op = "HandleError"
              /\ ecalls[q][i + 1].arg = ecalls[q][i].ret
        /\ \A i \in HandlerCalls(q) : (i - 1) \in FailedCalls(q)
        /\ Cardinality(HandlerCalls(q)) = Cardinality(FailedCalls(q))
        /\ Cardinality(HandlerCalls(q)) <= 1
        /\ (1 \in FailedCalls(q)) =>
              \A i \in 1..Len(ecalls[q]) : ecalls[q][i].op \notin {"Authorize", "Hydrate", "Mutate"}

\* C5 witness: an Execute whose Authenticate failed has returned
C5_Witness ==
    \E q \in Requests :
        /\ epc[q] = "done"
        /\ Len(ecalls[q]) = 2
        /\ ecalls[q][1].op = "Authenticate"
        /\ ecalls[q][1].ret = "e1"
        /\ ecalls[q][2] = [op |-> "HandleError", arg |-> "e1", ret |-> "translated"]

\* C6. Execute result: after a failure Execute returns a nil SubjectContext
\* and the ErrorHandler's return value; otherwise the four stages were called
\* once each in pipeline order, the ErrorHandler was not called, and Execute
\* returns the SubjectContext made for this call and a nil error.
C6_ExecuteResult ==
    \A q \in Requests :
        epc[q] = "done" =>
            IF FailedCalls(q) /= {}
            THEN /\ eres[q].sc = <<>>
                 /\ ecalls[q][Len(ecalls[q])].op = "HandleError"
                 /\ eres[q].err = ecalls[q][Len(ecalls[q])].ret
            ELSE /\ Len(ecalls[q]) = Len(Pipeline)
                 /\ \A i \in 1..Len(Pipeline) : ecalls[q][i].op = Pipeline[i] /\ ecalls[q][i].ret = Nil
                 /\ eres[q].sc /= <<>>
                 /\ eres[q].sc = esc[q]
                 /\ eres[q].sc[1].owner = q
                 /\ eres[q].sc[1].by = Pipeline
                 /\ eres[q].err = Nil

\* C6 witness: an Execute whose Hydrate failed and whose ErrorHandler
\* suppressed the error has returned (nil, nil), beside one that succeeded
C6_Witness ==
    \E q, p \in Requests :
        /\ epc[q] = "done"
        /\ ecalls[q][Len(ecalls[q])] = [op |-> "HandleError", arg |-> "e2", ret |-> Nil]
        /\ ecalls[q][Len(ecalls[q]) - 1].op = "Hydrate"
        /\ eres[q] = [sc |-> <<>>, err |-> Nil]
        /\ epc[p] = "done"
        /\ FailedCalls(p) = {}
        /\ eres[p].sc /= <<>>

\* C7. No send-after-close: no provider ever sends on the closed event queue.
C7_NoSendAfterClose == panicked /= "send on closed channel"

\* C8. Shutdown safety under repeated cycles (its safety part): no Stop of
\* any Start/Stop cycle closes an event queue that is already closed.
C8_NoCloseOfClosedQueue == panicked /= "close of closed channel"

\* Stop has handed the termination signal to the watcher, or has returned
\* (or no Start was made yet), and no Start was made since
Terminated == lpc \in {"Stop_close", "idle"}

\* C9. No processing after termination: from the moment the watcher has
\* received the termination signal it takes no event from the queue and the
\* rule collection does not change, events pending in the queue or not.
C9_NoProcessingAfterTermination ==
    [][Terminated =>
          /\ rules' = rules
          /\ cur' = cur
          /\ wpending' = wpending
          /\ (Len(queue') >= Len(queue))]_vars

\* C9 witness: Stop has returned with an event still pending in the queue
C9_Witness ==
    /\ lpc = "idle"
    /\ cycles >= 1
    /\ closed
    /\ wpc = "stopped"
    /\ Len(queue) > 0
    /\ queue[1].ChangeType = Create
    /\ queue[1].Definition.rcs /= <<>>

\* the rules newRule returns: id, source and the five stage references set
ConstructedRules ==
    { newRule(src, rc, AllOk).rule[1] : src \in Sources, rc \in RuleConfigs }

FullyConstructed(x) ==
    /\ x \in ConstructedRules
    /\ x.id /= "" /\ x.srcID /= ""
    /\ x.an /= Nil /\ x.az /= Nil /\ x.h /= Nil /\ x.m /= Nil /\ x.eh /= Nil

Reading == { r \in Readers : rpc[r] \in {"loop", "RUnlock"} }

\* while FindRule calls hold the read lock, any number of them at once, no
\* writer holds the lock or is inside addRule's critical section, and the
\* collection stays the one each of them found when it took the lock
ReadersExcludeWriter ==
    /\ mutex.readers = Cardinality(Reading)
    /\ mutex.writer <=> wpc \in {"addRule_append", "addRule_Unlock"}
    /\ \A r \in Reading :
          /\ ~mutex.writer
          /\ rules = rsnap[r]

\* C10. Concurrent reads see whole states: while FindRule calls hold the read
\* lock no writer holds the lock or is inside addRule's critical section, the
\* collection stays the one found when the lock was taken, and every rule
\* FindRule returns is a fully constructed rule of that collection: its id,
\* its source and its five stage references are set.
C10_ConcurrentReads ==
    /\ ReadersExcludeWriter
    /\ \A r \in Readers :
          (rpc[r] = "RUnlock" /\ rres[r].err = Nil) =>
              /\ Len(rres[r].rule) = 1
              /\ \E i \in 1..Len(rsnap[r]) : rsnap[r][i] = rres[r].rule[1]
              /\ FullyConstructed(rres[r].rule[1])

\* the subject extraction was given a document whose subject path holds a string
SubjectIsString(c) == gjsonRaw(c.rawData, c.s.SubjectFrom) \in StringTexts

\* C11: Authenticate extracts the token first: when no strategy finds a token
\* it fails with the auth-data-missing error without having requested the key
\* set, and the key-set endpoint is contacted only after a token was extracted
C11_ExtractionBeforeFetch ==
    acall.fn = "Authenticate" =>
        LET calls == acall.ret.calls
            found == GetAuthData(jwt.ret.auth[1].adg, acall.as).err = NoError
            called(f) == \E i \in 1..Len(calls) : calls[i] = f
        IN  /\ ~found => /\ acall.ret.err = Err("ArgumentError", "no jwt present")
                          /\ ~called("SendRequest")
            /\ called("SendRequest") =>
                   /\ found
                   /\ \E i, j \in 1..Len(calls) :
                          i < j /\ calls[i] = "GetAuthData" /\ calls[j] = "SendRequest"

\* C12: GetSubject returns a decoding error and no subject whenever the
\* subject path resolves to a missing or a non-string value; it never returns
\* a subject whose id is empty because the path was absent
C12_SubjectIdIsString ==
    (scall.fn = "GetSubject" /\ ~SubjectIsString(scall)) =>
        /\ scall.ret.err /= NoError
        /\ scall.ret.subject = <<>>

\* C13: every authenticator obtained, from NewJwtAuthenticatorFromYAML or from
\* WithConfig, has a non-empty allowed-algorithm list, and the default list
\* when its configuration names no algorithms
C13_AlgorithmsDefaulted ==
    (jwt /= NoCall /\ jwt.ret.auth /= <<>>) =>
        /\ jwt.ret.auth[1].a.AllowedAlgorithms /= <<>>
        /\ jwt.algs = <<>> => jwt.ret.auth[1].a.AllowedAlgorithms = DefaultAlgorithms

\* C14: MatchesMethod returns true if and only if the rule's method list is
\* empty or contains the method
C14_MethodMatching ==
    mcall.fn = "MatchesMethod" =>
        (mcall.ret <=> (\/ Len(mcall.rule.methods) = 0
                        \/ \E i \in 1..Len(mcall.rule.methods) : mcall.rule.methods[i] = mcall.method))

\* C15: in an execution with one Start followed by one Stop the queue is
\* closed only by Stop, at its close statement, and only when the watcher has
\* received the termination signal and left its loop; every receive of the
\* watcher is from the open queue and yields a sent event, never a zero value
C15_CloseAfterWatcherStopped ==
    [][cycles' <= 1 =>
          /\ (closed' /= closed) => (lpc = "Stop_close" /\ wpc = "stopped" /\ closed')
          /\ (cur' /= cur) => (~closed /\ cur'.ok /\ cur'.evt \in Events)]_vars

\* C15 witness: one Start and one Stop have run, the watcher applied an event
\* in between, and the queue is closed with the watcher out of its loop
C15_Witness ==
    /\ cycles = 1
    /\ lpc = "idle"
    /\ closed
    /\ wpc = "stopped"
    /\ cur /= NoEvent
    /\ cur.ok

\* no watcher is running: none was started yet, or the last one has returned
NoWatcher == wpc \in {"idle", "stopped"}

\* C20: a Stop called while no watcher is running, and none started
\* afterwards, stays at its send of the termination signal: it does not
\* return and it does not close the queue
C20_StopNeedsWatcher ==
    [][(lpc = "Stop_send" /\ NoWatcher) =>
          /\ lpc' = "Stop_send"
          /\ closed' = closed
          /\ wpc' = wpc]_vars

\* C20 witness: a second Stop after a completed Start and Stop waits at its
\* send while a provider's event is pending
C20_Witness ==
    /\ lpc = "Stop_send"
    /\ wpc = "stopped"
    /\ cycles >= 1
    /\ closed
    /\ Len(queue) > 0

\* the number of rules of the batch the watcher has loaded last, 0 if the
\* last event was no successfully loaded Create
BatchSize ==
    IF cur.evt.ChangeType = Create /\ cur.err = Nil THEN Len(cur.evt.Definition.rcs) ELSE 0

\* C16: a FindRule running while a successful Create batch of at least two
\* rules is loaded observes a collection with none or with all rules of the
\* batch, never with some of them only
C16_WholeBatchVisible ==
    \A r \in Reading :
        BatchSize >= 2 =>
            \/ Len(rsnap[r]) <= Len(cur.before)
            \/ Len(rsnap[r]) >= Len(cur.before) + BatchSize

\* the rules of the event being applied that addRule has not added yet
Unapplied == IF wpc = "addRule_Unlock" THEN Tail(wpending) ELSE wpending

\* C17: the watcher takes the events in queue order, one at a time and only
\* when the event before is fully applied, and applies each once: the rule
\* collection, with the rules still to be added of the event being applied,
\* is always the concatenation in receive order of the rule lists of the
\* successfully loaded Create events, each in declaration order
C17_InOrderExactlyOnce ==
    [][/\ rules' \o Unapplied' = loaded'
       /\ wpc' = "select" => rules' = loaded'
       /\ Len(queue') < Len(queue) =>
             /\ wpc = "select"
             /\ wpending = <<>>
             /\ rules = loaded
             /\ queue' = Tail(queue)
             /\ cur'.evt = Head(queue)
             /\ cur'.before = rules
             /\ IF cur'.evt.ChangeType = Create /\ cur'.err = Nil
                THEN /\ Len(loaded') = Len(loaded) + Len(cur'.evt.Definition.rcs)
                     /\ SubSeq(loaded', 1, Len(loaded)) = loaded
                     /\ \A i \in 1..Len(cur'.evt.Definition.rcs) :
                           /\ loaded'[Len(loaded) + i].id = cur'.evt.Definition.rcs[i].ID
                           /\ loaded'[Len(loaded) + i].srcID = cur'.evt.Src
                ELSE loaded' = loaded
       /\ loaded' /= loaded => Len(queue') < Len(queue)]_vars

\* C17 witness: two Create events of different sources were in the queue
\* together when the watcher took one; the one sent first is applied in full,
\* in declaration order, the other still waits in the queue, and the watcher
\* is back at its select
C17_Witness ==
    /\ wpc = "select"
    /\ cur.queued = 2
    /\ cur.evt.ChangeType = Create
    /\ cur.err = Nil
    /\ Len(cur.evt.Definition.rcs) = 2
    /\ rules = loaded
    /\ Len(rules) = Len(cur.before) + 2
    /\ Len(queue) = 1
    /\ queue[1].ChangeType = Create
    /\ queue[1].Src /= cur.evt.Src

\* C18: every rule in the collection has its five stage references non-null;
\* a rule for which the factory delivered no stage instance, be it with an
\* error or with a nil stage and a nil error, is never added
C18_WellFormedRules ==
    \A i \in 1..Len(rules) :
        /\ rules[i].an /= Nil
        /\ rules[i].az /= Nil
        /\ rules[i].h /= Nil
        /\ rules[i].m /= Nil
        /\ rules[i].eh /= Nil

\* Authenticate has called verifyTokenAndGetClaims
Verifying ==
    /\ acall.fn = "Authenticate"
    /\ \E i \in 1..Len(acall.ret.calls) : acall.ret.calls[i] = "verifyTokenAndGetClaims"

\* what it was called with: the authenticator, the token and the key set
VerifyingWith == jwt.ret.auth[1]

VerifiedToken == GetAuthData(VerifyingWith.adg, acall.as).val[1]

VerifiedKeys == acall.resp.keys

\* the checks of the decision chain
ThreeSegments == VerifiedToken.dots = 2

MatchingKeys == {i \in 1..Len(VerifiedKeys) : VerifiedKeys[i].KeyID = VerifiedToken.KeyID}

UniqueKey == Cardinality(MatchingKeys) = 1

TheKey == VerifiedKeys[CHOOSE i \in MatchingKeys : TRUE]

AlgorithmAllowed ==
    \E i \in 1..Len(VerifyingWith.a.AllowedAlgorithms) :
        VerifyingWith.a.AllowedAlgorithms[i] = TheKey.Algorithm

\* what the call returns when every check holds
Claims == [payload |-> <<VerifiedToken.payload>>, err |-> NoError]

Failure(kind, msg) == [payload |-> <<>>, err |-> Err(kind, msg)]

\* the failures of the key, algorithm, signature and assertion checks, the
\* first that does not hold deciding
ChainFromKey ==
    IF ~UniqueKey THEN Failure("error", "no (unique) key found for the given key id")
    ELSE IF ~AlgorithmAllowed THEN Failure("error", TheKey.Algorithm \o " algorithm is not allowed")
    ELSE IF ~VerifiedToken.verifies THEN Failure("error", "token.Claims failed")
    ELSE IF ~VerifiedToken.satisfies
    THEN Failure("UnauthorizedError", "access token does not satisfy assertion conditions")
    ELSE Claims

\* C19: verifyTokenAndGetClaims returns the claims if and only if the token
\* has three segments, the key set has exactly one key for its key id, that
\* key's algorithm is allowed, the signature verifies and the assertions are
\* satisfied, and otherwise the failure of the first of these checks that
\* does not hold; only the assertion failure is of the unauthorized kind
C19_DecisionChain ==
    Verifying =>
        acall.ret.verified =
            IF ~ThreeSegments THEN Failure("error", "unsupported jwt format") ELSE ChainFromKey

\* C19 as the code has it: between the segment count and the key lookup the
\* token is parsed, and a token of three segments that does not parse fails
\* with the parser's error, whatever the key set holds; only the assertion
\* failure is of the unauthorized kind
C19_DecisionChainWithParse ==
    Verifying =>
        /\ acall.ret.verified =
              IF ~ThreeSegments THEN Failure("error", "unsupported jwt format")
              ELSE IF ~VerifiedToken.wellFormed THEN Failure("error", "jwt.ParseSigned failed")
              ELSE ChainFromKey
        /\ acall.ret.verified.err.kind = "UnauthorizedError" <=>
              /\ ThreeSegments
              /\ VerifiedToken.wellFormed
              /\ UniqueKey
              /\ AlgorithmAllowed
              /\ VerifiedToken.verifies
              /\ ~VerifiedToken.satisfies

\* C19 witness: a token that passes the checks up to the signature and fails
\* the assertions, with an authenticator reconfigured by a rule
C19_Witness ==
    /\ Verifying
    /\ jwt.fn = "WithConfig"
    /\ acall.ret.verified.err.kind = "UnauthorizedError"
    /\ acall.ret.err.kind = "UnauthorizedError"
    /\ acall.ret.subject = <<>>

====
